---- MODULE Spec2Model ----
(***************************************************************************)
(* Model of bastion_session_creator.py: one invocation of main() selects a *)
(* target server, looks for an active bastion session for it, creates one  *)
(* if none is found, and hands the operator the SSH command.               *)
(***************************************************************************)
EXTENDS Integers, Sequences, FiniteSets, TLC

\* ------------------------------------------------------------------ bounds
\* longest line the operator types at the prompt
MaxInputLen == 2
\* sessions the bastion already holds when the first invocation starts
MaxPre == 2
\* get-session polls oci.wait_until makes before max_wait_seconds is exceeded
MaxPolls == 2
\* longest SSH command template the service returns
MaxTemplateLen == 6

\* ------------------------------------------------------- configuration
\* TARGET_SERVERS: the names in insertion order (list(TARGET_SERVERS.keys()))
ServerNames == <<"server1", "server2">>

\* the OCID values an operator may put into TARGET_SERVERS
OCIDS == {"ocidA", "ocidB"}

\* the TARGET_SERVERS mappings (name -> OCID) a run may be configured with: the
\* source ships the same placeholder for both names, an operator fills in
\* one OCID per server
Registries ==
    {[n \in {ServerNames[i] : i \in 1..Len(ServerNames)} |-> "ocidA"],
     [n \in {ServerNames[i] : i \in 1..Len(ServerNames)} |->
          IF n = ServerNames[1] THEN "ocidA" ELSE "ocidB"]}

\* "<privateKey>" as a sequence of characters
PLACEHOLDER == <<"<", "K", ">">>

\* PRIVATE_KEY_PATH as a sequence of characters
PRIVATE_KEY_PATH == <<"/", "p">>

\* ------------------------------------------------------------- strings
RECURSIVE SeqsUpTo(_, _)
\* all sequences over S of length at most n
SeqsUpTo(S, n) ==
    IF n = 0 THEN {<<>>}
    ELSE LET shorter == SeqsUpTo(S, n - 1)
         IN  shorter \cup {Append(s, c) : s \in {x \in shorter : Len(x) = n - 1}, c \in S}

\* the characters the operator types: digits, a sign, a blank, a letter
InputChars == {"0", "1", "2", "-", " ", "x"}
Digits == {"0", "1", "2"}
DigitValue(c) == CASE c = "0" -> 0 [] c = "1" -> 1 [] OTHER -> 2

\* the lines input() can return
InputLines == SeqsUpTo(InputChars, MaxInputLen)

RECURSIVE LStrip(_)
LStrip(s) == IF s # <<>> /\ Head(s) = " " THEN LStrip(Tail(s)) ELSE s

RECURSIVE RStrip(_)
RStrip(s) == IF s # <<>> /\ s[Len(s)] = " " THEN RStrip(SubSeq(s, 1, Len(s) - 1)) ELSE s

RECURSIVE DigitsValue(_)
\* value of a non-empty sequence of digits, base 10
DigitsValue(s) ==
    IF Len(s) = 1 THEN DigitValue(s[1])
    ELSE 10 * DigitsValue(SubSeq(s, 1, Len(s) - 1)) + DigitValue(s[Len(s)])

\* int(choice): surrounding whitespace is stripped, one optional sign, then
\* one or more digits; anything else raises ValueError
PyInt(s) ==
    LET t == RStrip(LStrip(s))
        signed == t # <<>> /\ Head(t) \in {"+", "-"}
        body == IF signed THEN Tail(t) ELSE t
    IN  IF body = <<>> \/ \E i \in 1..Len(body) : body[i] \notin Digits
        THEN [ok |-> FALSE, val |-> 0]
        ELSE [ok |-> TRUE,
              val |-> IF signed /\ Head(t) = "-" THEN 0 - DigitsValue(body)
                      ELSE DigitsValue(body)]

\* s.find(sub, start): the lowest index >= start where sub occurs, 0 if none
Find(s, sub, start) ==
    LET hits == {i \in start..(Len(s) - Len(sub) + 1) : SubSeq(s, i, i + Len(sub) - 1) = sub}
    IN  IF hits = {} THEN 0 ELSE CHOOSE i \in hits : \A j \in hits : i <= j

RECURSIVE ReplaceFrom(_, _, _, _)
ReplaceFrom(s, old, new, i) ==
    LET j == Find(s, old, i)
    IN  IF j = 0 THEN SubSeq(s, i, Len(s))
        ELSE SubSeq(s, i, j - 1) \o new \o ReplaceFrom(s, old, new, j + Len(old))

\* replaces only the leftmost occurrence (str.replace(old, new, 1))
ReplaceFirst(s, old, new) ==
    LET j == Find(s, old, 1)
    IN  IF j = 0 THEN s
        ELSE SubSeq(s, 1, j - 1) \o new \o SubSeq(s, j + Len(old), Len(s))

\* str.replace(old, new): every non-overlapping occurrence, left to right
Replace(s, old, new) == ReplaceFrom(s, old, new, 1)

\* ------------------------------------------------------------- sessions
\* lifecycle states of a bastion session (oci.bastion.models.Session)
LifecycleStates == {"CREATING", "ACTIVE", "DELETING", "DELETED", "FAILED"}

\* session.ssh_metadata is None
NoneMetadata == [isNone |-> TRUE, keys |-> {}, command |-> <<>>]

\* session.ssh_metadata is a dict without the "command" key
NoCommandMetadata == [isNone |-> FALSE, keys |-> {"username"}, command |-> <<>>]

\* session.ssh_metadata is a dict holding the command template t
CommandMetadata(t) == [isNone |-> FALSE, keys |-> {"username", "command"}, command |-> t]

TemplateChars == {"<", "K", ">", "/"}

\* every template up to the bound
AllTemplates == SeqsUpTo(TemplateChars, MaxTemplateLen)

\* the templates the service hands out in a full run: without the
\* placeholder, and with it
ServiceTemplates == {<<"/">>, <<"/", "<", "K", ">">>}

\* what get_session / wait_until may return as ssh_metadata
ServiceMetadata ==
    {NoneMetadata, NoCommandMetadata} \cup {CommandMetadata(t) : t \in ServiceTemplates}

\* Python None in the place of a session
NoSession == [id |-> 0, target |-> "", lifecycle_state |-> "", ssh_metadata |-> NoneMetadata]

\* the two invocations of the script that are run one after the other
Invocations == {1, 2}

VARIABLES
    registry,              \* TARGET_SERVERS
    pubKeyFile,            \* the file at PUBLIC_KEY_PATH: "present" or "missing"
    sessions,              \* the bastion's sessions, by id: [target, state]
    invocation,            \* which run of the script this is
    prev,                  \* what the previous run created: [id, target, ok]
    pc,                    \* position in main()
    choice,                \* the line input() returned
    selected_server_name,
    target_server_ocid,
    bastion_client,        \* TRUE once BastionClient(config) is built
    lookup,                \* "pending", "found", "notfound": find_active_session's result
    active_sessions,       \* list_sessions(...).data: summaries [id, target]
    found,                 \* id of the summary the scan stopped at
    session,
    public_key_content,    \* TRUE once the key file's content is read
    new_session_id,
    get_session_info,      \* the response wait_until evaluates
    polls,
    ssh_command,
    clipboard,             \* the strings handed to pyperclip.copy, in order
    printed,               \* the commands printed by the success banner, in order
    exitStatus,            \* <<>> while running, <<code>> once the process ended
    output,                \* the final message: which error, or "Success"
    createRequests,        \* create_session calls of this run
    serviceCalls,          \* bastion calls of this run
    keyReads               \* open(PUBLIC_KEY_PATH) calls of this run

envVars == <<registry, pubKeyFile, invocation, prev>>
selVars == <<choice, selected_server_name, target_server_ocid>>
findVars == <<lookup, active_sessions, found>>
createVars == <<public_key_content, new_session_id, get_session_info, polls>>
outVars == <<ssh_command, clipboard, printed>>
vars == <<envVars, sessions, pc, selVars, bastion_client, findVars, session, createVars,
          outVars, exitStatus, output, createRequests, serviceCalls, keyReads>>

\* the values of a freshly started process
Fresh ==
    [pc |-> "prompt",
     choice |-> <<>>,
     selected_server_name |-> "",
     target_server_ocid |-> "",
     bastion_client |-> FALSE,
     lookup |-> "pending",
     active_sessions |-> <<>>,
     found |-> 0,
     session |-> NoSession,
     public_key_content |-> FALSE,
     new_session_id |-> 0,
     get_session_info |-> NoSession,
     polls |-> 0,
     ssh_command |-> <<>>,
     clipboard |-> <<>>,
     printed |-> <<>>,
     exitStatus |-> <<>>,
     output |-> "",
     createRequests |-> 0,
     serviceCalls |-> 0,
     keyReads |-> 0]

\* the process starts
Started ==
    /\ pc = Fresh.pc
    /\ choice = Fresh.choice
    /\ selected_server_name = Fresh.selected_server_name
    /\ target_server_ocid = Fresh.target_server_ocid
    /\ bastion_client = Fresh.bastion_client
    /\ lookup = Fresh.lookup
    /\ active_sessions = Fresh.active_sessions
    /\ found = Fresh.found
    /\ session = Fresh.session
    /\ public_key_content = Fresh.public_key_content
    /\ new_session_id = Fresh.new_session_id
    /\ get_session_info = Fresh.get_session_info
    /\ polls = Fresh.polls
    /\ ssh_command = Fresh.ssh_command
    /\ clipboard = Fresh.clipboard
    /\ printed = Fresh.printed
    /\ exitStatus = Fresh.exitStatus
    /\ output = Fresh.output
    /\ createRequests = Fresh.createRequests
    /\ serviceCalls = Fresh.serviceCalls
    /\ keyReads = Fresh.keyReads

\* a new process starts
Restarted ==
    /\ pc' = Fresh.pc
    /\ choice' = Fresh.choice
    /\ selected_server_name' = Fresh.selected_server_name
    /\ target_server_ocid' = Fresh.target_server_ocid
    /\ bastion_client' = Fresh.bastion_client
    /\ lookup' = Fresh.lookup
    /\ active_sessions' = Fresh.active_sessions
    /\ found' = Fresh.found
    /\ session' = Fresh.session
    /\ public_key_content' = Fresh.public_key_content
    /\ new_session_id' = Fresh.new_session_id
    /\ get_session_info' = Fresh.get_session_info
    /\ polls' = Fresh.polls
    /\ ssh_command' = Fresh.ssh_command
    /\ clipboard' = Fresh.clipboard
    /\ printed' = Fresh.printed
    /\ exitStatus' = Fresh.exitStatus
    /\ output' = Fresh.output
    /\ createRequests' = Fresh.createRequests
    /\ serviceCalls' = Fresh.serviceCalls
    /\ keyReads' = Fresh.keyReads

\* the sessions the bastion holds when the script is first run: list_sessions
\* filters on ACTIVE, so these are the ones a run can see
StoredSessions == [target : OCIDS, state : {"ACTIVE"}]

Init ==
    /\ registry \in Registries
    /\ pubKeyFile \in {"present", "missing"}
    /\ sessions \in SeqsUpTo(StoredSessions, MaxPre)
    /\ invocation = 1
    /\ prev = [id |-> 0, target |-> "", ok |-> FALSE]
    /\ Started

\* sys.exit(code) after printing message
Exit(code, message) ==
    /\ pc' = "done"
    /\ exitStatus' = <<code>>
    /\ output' = message

\* an exception no handler catches: traceback, exit status 1
Uncaught(exception) == Exit(1, exception)

\* ------------------------------------------------------ target selection
\* input(...) at the prompt
ReadInput ==
    /\ pc = "prompt"
    /\ \/ /\ \E line \in InputLines : choice' = line
          /\ pc' = "parse"
          /\ UNCHANGED <<exitStatus, output>>
       \/ /\ \E interrupt \in {"KeyboardInterrupt", "EOFError"} : Exit(0, "SelectionCancelled")
          /\ UNCHANGED choice
    /\ UNCHANGED <<envVars, sessions, selected_server_name, target_server_ocid, bastion_client,
                   findVars, session, createVars, outVars, createRequests, serviceCalls, keyReads>>

\* a range test written for a 1-based index
InRangeOneBased(choice_index, n) == 1 <= choice_index /\ choice_index < n

\* the range test on choice_index
InRange(choice_index, n) == 0 <= choice_index /\ choice_index < n

\* int(choice) - 1, the range test and the return
EvaluateChoice ==
    /\ pc = "parse"
    /\ LET parsed == PyInt(choice)
           choice_index == parsed.val - 1
       IN  IF parsed.ok /\ InRange(choice_index, Len(ServerNames))
           THEN /\ selected_server_name' = ServerNames[choice_index + 1]
                /\ target_server_ocid' = registry[ServerNames[choice_index + 1]]
                /\ pc' = "config"
           ELSE /\ pc' = "prompt"
                /\ UNCHANGED <<selected_server_name, target_server_ocid>>
    /\ choice' = <<>>
    /\ UNCHANGED <<envVars, sessions, bastion_client, findVars, session, createVars, outVars,
                   exitStatus, output, createRequests, serviceCalls, keyReads>>

\* a handler that ends the process with status 0 when the config file is missing
LoadConfigExitZero ==
    /\ pc = "config"
    /\ \/ /\ bastion_client' = TRUE
          /\ pc' = "list"
          /\ UNCHANGED <<exitStatus, output>>
       \/ /\ Exit(0, "ConfigFileNotFound")
          /\ UNCHANGED bastion_client
    /\ UNCHANGED <<envVars, sessions, selVars, findVars, session, createVars, outVars,
                   createRequests, serviceCalls, keyReads>>

\* a main() that reads the public key file before it looks for a session
LoadConfigEagerKey ==
    /\ pc = "config"
    /\ keyReads' = keyReads + 1
    /\ \/ /\ pubKeyFile = "present"
          /\ bastion_client' = TRUE
          /\ public_key_content' = TRUE
          /\ pc' = "list"
          /\ UNCHANGED <<exitStatus, output>>
       \/ /\ pubKeyFile = "missing"
          /\ Exit(1, "PublicKeyFileNotFound")
          /\ UNCHANGED <<bastion_client, public_key_content>>
    /\ UNCHANGED <<envVars, sessions, selVars, findVars, session, new_session_id,
                   get_session_info, polls, outVars, createRequests, serviceCalls>>

\* oci.config.from_file() and BastionClient(config)
LoadConfig ==
    /\ pc = "config"
    /\ \/ /\ bastion_client' = TRUE
          /\ pc' = "list"
          /\ UNCHANGED <<exitStatus, output>>
       \/ /\ Exit(1, "ConfigFileNotFound")
          /\ UNCHANGED bastion_client
    /\ UNCHANGED <<envVars, sessions, selVars, findVars, session, createVars, outVars,
                   createRequests, serviceCalls, keyReads>>

\* ------------------------------------------------- the bastion service
\* the summaries list_sessions returns: the ACTIVE sessions, in the order
\* the service sorts them (oldest or newest first)
ListResponse(order) ==
    LET all == [i \in 1..Len(sessions) |->
                    [id |-> i, target |-> sessions[i].target, state |-> sessions[i].state]]
        active == SelectSeq(all, LAMBDA e : e.state = "ACTIVE")
        summaries == [i \in 1..Len(active) |-> [id |-> active[i].id, target |-> active[i].target]]
    IN  IF order = "ASC" THEN summaries
        ELSE [i \in 1..Len(summaries) |-> summaries[Len(summaries) + 1 - i]]

\* the record get_session returns for id, with the SSH metadata the service sends
SessionRecord(id, metadata) ==
    [id |-> id, target |-> sessions[id].target, lifecycle_state |-> sessions[id].state,
     ssh_metadata |-> metadata]

\* the positions of main() at which the next step is a call to the service
CallPoints == {"list", "get", "create", "getnew", "wait"}

\* the service moves a session through its lifecycle on its own; the script
\* sees the service only through its calls, so a change is taken when the
\* next step is a call
ServiceLifecycle ==
    /\ pc \in CallPoints
    /\ \E i \in 1..Len(sessions) :
          \/ /\ sessions[i].state = "CREATING"
             /\ \E s \in {"ACTIVE", "FAILED"} : sessions' = [sessions EXCEPT ![i].state = s]
          \/ /\ sessions[i].state = "ACTIVE"
             /\ sessions' = [sessions EXCEPT ![i].state = "DELETING"]
          \/ /\ sessions[i].state = "DELETING"
             /\ sessions' = [sessions EXCEPT ![i].state = "DELETED"]
    /\ UNCHANGED <<envVars, pc, selVars, bastion_client, findVars, session, createVars, outVars,
                   exitStatus, output, createRequests, serviceCalls, keyReads>>

\* ------------------------------------------------- find_active_session
\* a scan that stops at the last matching entry instead of the first
LastMatch(list, target) ==
    LET hits == {i \in 1..Len(list) : list[i].target = target}
    IN  IF hits = {} THEN 0 ELSE CHOOSE i \in hits : \A j \in hits : j <= i

\* a scan whose comparison is inverted: stops at the first entry of another target
FirstMismatch(list, target) ==
    LET hits == {i \in 1..Len(list) : list[i].target # target}
    IN  IF hits = {} THEN 0 ELSE CHOOSE i \in hits : \A j \in hits : i <= j

\* the for loop: index of the first entry whose target_resource_id equals
\* target, 0 when the loop runs to its end
FirstMatch(list, target) ==
    LET hits == {i \in 1..Len(list) : list[i].target = target}
    IN  IF hits = {} THEN 0 ELSE CHOOSE i \in hits : \A j \in hits : i <= j

\* list_sessions and the scan of its result
ListSessions ==
    /\ pc = "list"
    /\ serviceCalls' = serviceCalls + 1
    /\ \/ /\ \E order \in {"ASC", "DESC"} :
                LET listed == ListResponse(order)
                    m == FirstMatch(listed, target_server_ocid)
                IN  /\ active_sessions' = listed
                    /\ IF m = 0
                       THEN /\ lookup' = "notfound"
                            /\ pc' = "readkey"
                            /\ UNCHANGED found
                       ELSE /\ found' = listed[m].id
                            /\ pc' = "get"
                            /\ UNCHANGED lookup
          /\ UNCHANGED <<exitStatus, output>>
       \/ /\ Exit(1, "ErrorCheckingForSessions")
          /\ UNCHANGED findVars
    /\ UNCHANGED <<envVars, sessions, selVars, bastion_client, session, createVars, outVars,
                   createRequests, keyReads>>

\* return bastion_client.get_session(session_id=session.id).data
GetSession ==
    /\ pc = "get"
    /\ serviceCalls' = serviceCalls + 1
    /\ \/ /\ \E metadata \in ServiceMetadata : session' = SessionRecord(found, metadata)
          /\ lookup' = "found"
          /\ pc' = "check"
          /\ UNCHANGED <<exitStatus, output>>
       \/ /\ Exit(1, "ErrorCheckingForSessions")
          /\ UNCHANGED <<session, lookup>>
    /\ UNCHANGED <<envVars, sessions, selVars, bastion_client, active_sessions, found, createVars,
                   outVars, createRequests, keyReads>>

\* ------------------------------------------------------ read_public_key
\* a handler that reports the missing file and carries on
ReadPublicKeyNoExit ==
    /\ pc = "readkey"
    /\ keyReads' = keyReads + 1
    /\ \/ /\ pubKeyFile = "present"
          /\ public_key_content' = TRUE
          /\ pc' = "create"
          /\ UNCHANGED <<exitStatus, output>>
       \/ /\ pubKeyFile = "missing"
          /\ pc' = "create"
          /\ UNCHANGED <<public_key_content, exitStatus, output>>
       \/ /\ pubKeyFile = "present"
          /\ Uncaught("PermissionError")
          /\ UNCHANGED public_key_content
    /\ UNCHANGED <<envVars, sessions, selVars, bastion_client, findVars, session, new_session_id,
                   get_session_info, polls, outVars, createRequests, serviceCalls>>

\* open(path) and f.read().strip(): FileNotFoundError is handled, any other
\* OSError of a file that exists (PermissionError) is not
ReadPublicKey ==
    /\ pc = "readkey"
    /\ keyReads' = keyReads + 1
    /\ \/ /\ pubKeyFile = "present"
          /\ public_key_content' = TRUE
          /\ pc' = "create"
          /\ UNCHANGED <<exitStatus, output>>
       \/ /\ pubKeyFile = "missing"
          /\ Exit(1, "PublicKeyFileNotFound")
          /\ UNCHANGED public_key_content
       \/ /\ pubKeyFile = "present"
          /\ Uncaught("PermissionError")
          /\ UNCHANGED public_key_content
    /\ UNCHANGED <<envVars, sessions, selVars, bastion_client, findVars, session, new_session_id,
                   get_session_info, polls, outVars, createRequests, serviceCalls>>

\* --------------------------------------------------- create_new_session
\* create details that bind the session to the first configured server
CreateDetailsFirstServer(target) ==
    [target |-> registry[ServerNames[1]], state |-> "CREATING"]

\* CreateSessionDetails(... target_resource_id=target_ocid ...): the session
\* the service creates from them
CreateDetails(target) == [target |-> target, state |-> "CREATING"]

\* bastion_client.create_session(...); new_session_id = response.data.id
CreateSession ==
    /\ pc = "create"
    /\ serviceCalls' = serviceCalls + 1
    /\ createRequests' = createRequests + 1
    /\ \/ /\ sessions' = Append(sessions, CreateDetails(target_server_ocid))
          /\ new_session_id' = Len(sessions) + 1
          /\ pc' = "getnew"
          /\ UNCHANGED <<exitStatus, output>>
       \/ /\ Exit(1, "ErrorCreatingSession")
          /\ UNCHANGED <<sessions, new_session_id>>
    /\ UNCHANGED <<envVars, selVars, bastion_client, findVars, session, public_key_content,
                   get_session_info, polls, outVars, keyReads>>

\* get_session_info = bastion_client.get_session(session_id=new_session_id)
GetNewSession ==
    /\ pc = "getnew"
    /\ serviceCalls' = serviceCalls + 1
    /\ \/ /\ \E metadata \in ServiceMetadata :
                get_session_info' = SessionRecord(new_session_id, metadata)
          /\ pc' = "wait"
          /\ UNCHANGED <<exitStatus, output>>
       \/ /\ Exit(1, "ErrorCreatingSession")
          /\ UNCHANGED get_session_info
    /\ UNCHANGED <<envVars, sessions, selVars, bastion_client, findVars, session,
                   public_key_content, new_session_id, polls, outVars, createRequests, keyReads>>

\* a wait that returns on any state at which the session stops changing
Settled(record) == record.lifecycle_state \in {"ACTIVE", "FAILED", "DELETED"}

\* wait_until's test: getattr(response.data, 'lifecycle_state') == 'ACTIVE'
Available(record) == record.lifecycle_state = "ACTIVE"

\* oci.wait_until(bastion_client, get_session_info, 'lifecycle_state', 'ACTIVE',
\* max_wait_seconds=120): returns the response once it is ACTIVE, fetches it
\* again while the wait budget lasts, raises MaximumWaitTimeExceeded after
WaitUntil ==
    /\ pc = "wait"
    /\ \/ /\ Available(get_session_info)
          /\ session' = get_session_info
          /\ pc' = "check"
          /\ UNCHANGED <<get_session_info, polls, exitStatus, output, serviceCalls>>
       \/ /\ ~Available(get_session_info)
          /\ polls < MaxPolls
          /\ polls' = polls + 1
          /\ serviceCalls' = serviceCalls + 1
          /\ \/ /\ \E metadata \in ServiceMetadata :
                      get_session_info' = SessionRecord(new_session_id, metadata)
                /\ UNCHANGED <<pc, exitStatus, output>>
             \/ /\ Exit(1, "ErrorCreatingSession")
                /\ UNCHANGED get_session_info
          /\ UNCHANGED session
       \/ /\ ~Available(get_session_info)
          /\ polls = MaxPolls
          /\ Uncaught("MaximumWaitTimeExceeded")
          /\ UNCHANGED <<session, get_session_info, polls, serviceCalls>>
    /\ UNCHANGED <<envVars, sessions, selVars, bastion_client, findVars, public_key_content,
                   new_session_id, outVars, createRequests, keyReads>>

\* ------------------------------------------------ command and delivery
\* "command" in session.ssh_metadata: TypeError when ssh_metadata is None
HasCommand(metadata) ==
    IF metadata.isNone THEN [raises |-> TRUE, value |-> FALSE]
    ELSE [raises |-> FALSE, value |-> "command" \in metadata.keys]

\* if not session or "command" not in session.ssh_metadata: ... sys.exit(1)
CheckSession ==
    /\ pc = "check"
    /\ IF session = NoSession THEN Exit(1, "CouldNotRetrieveSSHCommand")
       ELSE IF HasCommand(session.ssh_metadata).raises THEN Uncaught("TypeError")
       ELSE IF ~HasCommand(session.ssh_metadata).value THEN Exit(1, "CouldNotRetrieveSSHCommand")
       ELSE /\ pc' = "assemble"
            /\ UNCHANGED <<exitStatus, output>>
    /\ UNCHANGED <<envVars, sessions, selVars, bastion_client, findVars, session, createVars,
                   outVars, createRequests, serviceCalls, keyReads>>

\* ssh_command = session.ssh_metadata["command"].replace("<privateKey>", PRIVATE_KEY_PATH)
AssembleCommand ==
    /\ pc = "assemble"
    /\ ssh_command' = Replace(session.ssh_metadata.command, PLACEHOLDER, PRIVATE_KEY_PATH)
    /\ pc' = "copy"
    /\ UNCHANGED <<envVars, sessions, selVars, bastion_client, findVars, session, createVars,
                   clipboard, printed, exitStatus, output, createRequests, serviceCalls, keyReads>>

\* pyperclip.copy(ssh_command): raises PyperclipException without a clipboard
CopyToClipboard ==
    /\ pc = "copy"
    /\ \/ /\ clipboard' = Append(clipboard, ssh_command)
          /\ pc' = "print"
          /\ UNCHANGED <<exitStatus, output>>
       \/ /\ Uncaught("PyperclipException")
          /\ UNCHANGED clipboard
    /\ UNCHANGED <<envVars, sessions, selVars, bastion_client, findVars, session, createVars,
                   ssh_command, printed, createRequests, serviceCalls, keyReads>>

\* the success banner and print(f"{ssh_command}\n"); main returns
PrintSuccess ==
    /\ pc = "print"
    /\ printed' = Append(printed, ssh_command)
    /\ Exit(0, "Success")
    /\ UNCHANGED <<envVars, sessions, selVars, bastion_client, findVars, session, createVars,
                   ssh_command, clipboard, createRequests, serviceCalls, keyReads>>

\* ------------------------------------------------------ a second run
\* the operator runs the script again after a run that succeeded: a new
\* process, the same configuration, files and bastion
StartNextRun ==
    /\ pc = "done"
    /\ exitStatus = <<0>>
    /\ output = "Success"
    /\ invocation + 1 \in Invocations
    /\ invocation' = invocation + 1
    /\ prev' = [id |-> new_session_id, target |-> target_server_ocid, ok |-> TRUE]
    /\ Restarted
    /\ UNCHANGED <<registry, pubKeyFile, sessions>>

\* ------------------------------------------------------ specifications
Next ==
    \/ ReadInput
    \/ EvaluateChoice
    \/ LoadConfig
    \/ ListSessions
    \/ GetSession
    \/ ReadPublicKey
    \/ CreateSession
    \/ GetNewSession
    \/ WaitUntil
    \/ CheckSession
    \/ AssembleCommand
    \/ CopyToClipboard
    \/ PrintSuccess
    \/ ServiceLifecycle

\* one invocation of the script against the bastion service
Spec == Init /\ [][Next]_vars

NextRuns ==
    \/ Next
    \/ StartNextRun

\* two invocations, the second started after the first succeeded
SpecRuns == Init /\ [][NextRuns]_vars

\* every record a get_session call may return for the session a lookup found
AssemblyMetadata ==
    {NoneMetadata, NoCommandMetadata} \cup {CommandMetadata(t) : t \in AllTemplates}

\* main() at line 142, holding a reused session whose SSH metadata is any the
\* service may send
InitAssembly ==
    /\ registry \in Registries
    /\ pubKeyFile \in {"present", "missing"}
    /\ sessions = <<[target |-> "ocidA", state |-> "ACTIVE"]>>
    /\ invocation = 1
    /\ prev = [id |-> 0, target |-> "", ok |-> FALSE]
    /\ pc = "check"
    /\ choice = <<>>
    /\ selected_server_name = ServerNames[1]
    /\ target_server_ocid = registry[ServerNames[1]]
    /\ bastion_client = TRUE
    /\ lookup = "found"
    /\ active_sessions = <<[id |-> 1, target |-> "ocidA"]>>
    /\ found = 1
    /\ \E metadata \in AssemblyMetadata : session = SessionRecord(1, metadata)
    /\ public_key_content = FALSE
    /\ new_session_id = 0
    /\ get_session_info = NoSession
    /\ polls = 0
    /\ ssh_command = <<>>
    /\ clipboard = <<>>
    /\ printed = <<>>
    /\ exitStatus = <<>>
    /\ output = ""
    /\ createRequests = 0
    /\ serviceCalls = 2
    /\ keyReads = 0

NextAssembly ==
    \/ CheckSession
    \/ AssembleCommand
    \/ CopyToClipboard
    \/ PrintSuccess

\* lines 142-156 of main() on every template up to MaxTemplateLen
SpecAssembly == InitAssembly /\ [][NextAssembly]_vars

\* ------------------------------------------------------------ properties
\* the entries of the list whose target is the selected one
Matching == {i \in 1..Len(active_sessions) : active_sessions[i].target = target_server_ocid}

\* the process has ended
Ended == pc = "done"

\* C1: a run issues at most one create-session request; when the list the
\* service returned holds a session of the selected target, the run issues no
\* create request and the session it uses is one of the listed ones
AtMostOneSessionCreated ==
    /\ createRequests <= 1
    /\ Matching # {} =>
          /\ createRequests = 0
          /\ new_session_id = 0
          /\ session # NoSession =>
                \E i \in Matching : session.id = active_sessions[i].id
          /\ ssh_command # <<>> =>
                ssh_command = Replace(session.ssh_metadata.command, PLACEHOLDER, PRIVATE_KEY_PATH)

\* C1 witness: a run that reused a listed session and delivered its command
ReusedListedSession ==
    /\ Ended
    /\ output = "Success"
    /\ Matching # {}
    /\ Len(active_sessions) = 2
    /\ clipboard # <<>>

\* C3: once the scan has run, it has stopped at the first entry in list order
\* whose target is the requested one, the record returned is the get_session
\* record of that entry, and the result is "not found", with the process still
\* running, exactly when no entry matches
FindReturnsFirstMatch ==
    /\ (found # 0 \/ lookup = "notfound") =>
          IF Matching = {}
          THEN lookup = "notfound" /\ found = 0
          ELSE /\ lookup # "notfound"
               /\ \E i \in Matching :
                     /\ \A j \in Matching : i <= j
                     /\ found = active_sessions[i].id
    /\ lookup = "found" =>
          /\ session.id = found
          /\ session.target = target_server_ocid
          /\ session.target = sessions[found].target
    /\ (lookup = "notfound" /\ keyReads = 0) => (pc = "readkey" /\ exitStatus = <<>>)

\* C3 witness: two listed sessions match and the lookup returned a record
FoundAmongTwoMatches ==
    /\ lookup = "found"
    /\ Cardinality(Matching) = 2
    /\ session # NoSession

\* C4: a session the run created is used only when it was observed ACTIVE;
\* a run that created a session and never saw it ACTIVE ends with status 1,
\* emits no command and writes no clipboard; there is no second create
CreatedSessionUsedOnlyWhenActive ==
    /\ createRequests <= 1
    /\ (new_session_id # 0 /\ session # NoSession) =>
          /\ session.id = new_session_id
          /\ session.lifecycle_state = "ACTIVE"
    /\ (createRequests > 0 /\ session = NoSession) =>
          /\ ssh_command = <<>>
          /\ clipboard = <<>>
          /\ printed = <<>>
          /\ Ended => exitStatus = <<1>>
    /\ (Ended /\ output = "MaximumWaitTimeExceeded") =>
          /\ polls = MaxPolls
          /\ session = NoSession
          /\ createRequests = 1

\* C4 witness: the new session failed during polling and the wait ran out
WaitTimedOutOnFailedSession ==
    /\ Ended
    /\ output = "MaximumWaitTimeExceeded"
    /\ get_session_info.lifecycle_state = "FAILED"
    /\ exitStatus = <<1>>

\* C5: when the lookup found nothing and the public key file is missing, no
\* create request is issued, the clipboard is not written, and the run ends
\* with status 1 and the "public key file not found" message
MissingKeyStopsBeforeCreate ==
    (lookup = "notfound" /\ pubKeyFile = "missing") =>
        /\ createRequests = 0
        /\ new_session_id = 0
        /\ clipboard = <<>>
        /\ pc \in {"readkey", "done"}
        /\ Ended => (exitStatus = <<1>> /\ output = "PublicKeyFileNotFound")

\* C5 witness: a run that ended on the missing key file
EndedOnMissingKey ==
    /\ Ended
    /\ lookup = "notfound"
    /\ pubKeyFile = "missing"
    /\ output = "PublicKeyFileNotFound"

\* C6: a run that holds a session record without the command field (no
\* "command" key, or no SSH metadata at all) ends with status 1 and the
\* "could not retrieve SSH command" message, and never writes the clipboard
MissingCommandReported ==
    (Ended /\ session # NoSession /\ "command" \notin session.ssh_metadata.keys) =>
        /\ exitStatus = <<1>>
        /\ output = "CouldNotRetrieveSSHCommand"
        /\ clipboard = <<>>

\* the messages of the fatal errors main() reports
FatalMessages ==
    {"ConfigFileNotFound", "PublicKeyFileNotFound", "ErrorCheckingForSessions",
     "ErrorCreatingSession", "MaximumWaitTimeExceeded", "CouldNotRetrieveSSHCommand"}

\* C7: a run ends with status 0 exactly when it succeeded or the operator
\* cancelled the prompt, and with status 1 on every fatal error; a run that
\* succeeded wrote the clipboard exactly once
ExitCodes ==
    Ended =>
        /\ exitStatus \in {<<0>>, <<1>>}
        /\ exitStatus = <<0>> <=> output \in {"Success", "SelectionCancelled"}
        /\ output \in FatalMessages => exitStatus = <<1>>
        /\ output = "Success" <=> Len(printed) = 1
        /\ output = "Success" => Len(clipboard) = 1
        /\ output = "SelectionCancelled" => (selected_server_name = "" /\ clipboard = <<>>)
        /\ Len(clipboard) <= 1

\* C7 witness: a run that failed on a service error after the lookup found a session
EndedOnServiceError ==
    /\ Ended
    /\ output = "ErrorCheckingForSessions"
    /\ found # 0
    /\ exitStatus = <<1>>

\* the line denotes the integer k of 1..9: blanks, leading zeros, the digit, blanks
Denotes(line, k) ==
    \E i \in 1..Len(line) :
        \E j \in i..Len(line) :
            /\ \A q \in 1..(i - 1) : line[q] = " "
            /\ \A q \in (j + 1)..Len(line) : line[q] = " "
            /\ \A q \in i..(j - 1) : line[q] = "0"
            /\ line[j] \in Digits
            /\ DigitValue(line[j]) = k

\* what each step of select_target_server must do
SelectionStep ==
    /\ (pc = "parse" /\ pc' # "parse") =>
          IF \E k \in 1..Len(ServerNames) : Denotes(choice, k)
          THEN \E k \in 1..Len(ServerNames) :
                  /\ Denotes(choice, k)
                  /\ pc' = "config"
                  /\ selected_server_name' = ServerNames[k]
                  /\ target_server_ocid' = registry[ServerNames[k]]
          ELSE /\ pc' = "prompt"
               /\ selected_server_name' = ""
               /\ target_server_ocid' = ""
               /\ exitStatus' = <<>>
    /\ (pc = "prompt" /\ pc' = "done") =>
          /\ exitStatus' = <<0>>
          /\ target_server_ocid' = ""
    /\ target_server_ocid' # "" => target_server_ocid' = registry[selected_server_name']

\* C8: a line that is not an integer of 1..n leads back to the prompt and
\* returns nothing; a line that denotes k in 1..n returns the registry value
\* of the k-th name; an interrupt or end of input at the prompt ends the
\* process with status 0 and returns nothing
SelectionReturnsChosenEntry == [][SelectionStep]_vars

\* C8 witness: the second name was chosen and its registry value returned
SecondServerSelected ==
    /\ pc = "config"
    /\ selected_server_name = ServerNames[2]
    /\ target_server_ocid = registry[ServerNames[2]]
    /\ registry[ServerNames[2]] # registry[ServerNames[1]]

\* the placeholder occurs in the template at index i
OccursAt(template, i) ==
    /\ i + Len(PLACEHOLDER) - 1 <= Len(template)
    /\ SubSeq(template, i, i + Len(PLACEHOLDER) - 1) = PLACEHOLDER

\* what the character at index i of the template becomes: the key path where
\* an occurrence starts, nothing inside an occurrence, itself elsewhere
Substituted(template, i) ==
    IF OccursAt(template, i) THEN PRIVATE_KEY_PATH
    ELSE IF \E j \in 1..(i - 1) : OccursAt(template, j) /\ i < j + Len(PLACEHOLDER) THEN <<>>
    ELSE <<template[i]>>

RECURSIVE SubstitutedUpTo(_, _)
SubstitutedUpTo(template, n) ==
    IF n = 0 THEN <<>> ELSE SubstitutedUpTo(template, n - 1) \o Substituted(template, n)

\* C9: the assembled command is the template with every occurrence of the
\* placeholder replaced by the private key path and nothing else changed (a
\* template without the placeholder is unchanged), and the string copied to
\* the clipboard is the string printed
EveryPlaceholderReplaced ==
    LET template == session.ssh_metadata.command
    IN  /\ pc \in {"copy", "print"} \/ output = "Success" =>
              /\ ssh_command = SubstitutedUpTo(template, Len(template))
              /\ \A i \in 1..Len(ssh_command) : ~OccursAt(ssh_command, i)
              /\ (\A i \in 1..Len(template) : ~OccursAt(template, i)) => ssh_command = template
        /\ clipboard # <<>> => clipboard = <<ssh_command>>
        /\ printed # <<>> => printed = clipboard

\* C9 witness: a template with two occurrences was assembled, copied and printed
TwoPlaceholdersDelivered ==
    /\ output = "Success"
    /\ session.ssh_metadata.command = PLACEHOLDER \o PLACEHOLDER
    /\ printed = <<PRIVATE_KEY_PATH \o PRIVATE_KEY_PATH>>

\* C10: the public key file is opened only after the lookup returned "not
\* found"; the config is loaded and the service called only after the
\* selection returned; a run that found a session never opens the key file
\* and does not fail on it; a cancelled selection ends with status 0 before
\* any service call, file read or clipboard write
StepsInOrder ==
    /\ keyReads > 0 => lookup = "notfound"
    /\ lookup = "found" => (keyReads = 0 /\ output # "PublicKeyFileNotFound")
    /\ (bastion_client \/ serviceCalls > 0) => target_server_ocid # ""
    /\ serviceCalls > 0 => bastion_client
    /\ output = "SelectionCancelled" =>
          /\ exitStatus = <<0>>
          /\ ~bastion_client
          /\ serviceCalls = 0
          /\ keyReads = 0
          /\ clipboard = <<>>

\* C10 witness: a run succeeded on a reused session although the key file is missing
SucceededWithoutKeyFile ==
    /\ Ended
    /\ output = "Success"
    /\ lookup = "found"
    /\ pubKeyFile = "missing"
    /\ keyReads = 0

====
